---- MODULE Spec2Model ----
(***************************************************************************)
(* Run-time heterogeneous map (DynamicHMap) of Cxx-Heterogeneous-Maps.     *)
(*                                                                         *)
(* A DynamicHMap is a std::map<detail::KeyBase, std::any>.  A key is a     *)
(* string plus the address of the KeyTag<V> singleton of its declared      *)
(* type; a std::any is modelled by the type it holds and the value.        *)
(* Two snapshots of the library are modelled:                              *)
(*   Spec    include/hmap/dynamic-hmap.hpp lines 1-551, whose KeyBase      *)
(*           comparison operators are defined inline in the header;        *)
(*   SpecOld unnamed/part_003 linked with src/dynamic-hmap.cc, whose       *)
(*           KeyBase comparison operators are defined in the .cc file.     *)
(* unsafe_insert_or_assign (dynamic-hmap.hpp:420-423) is not an action of  *)
(* either specification: every behaviour is a sequence of the other        *)
(* public operations.                                                      *)
(***************************************************************************)
EXTENDS Integers, Sequences, FiniteSets, TLC

VARIABLES
    map_,   \* instance name -> the entries of its backing std::map
    caps,   \* the tuple returned by extract, until insert consumes it
    opts,   \* the tuple returned by optCheckOut, until optCheckIn consumes it
    ret,    \* the last call: the operation and what it returned or threw
    theTag_,  \* type -> the function-local static of KeyTag<V>::tag(): its guard
              \* and the number of times its initializer has run
    threads,  \* thread -> where it is in its call of KeyTag<V>::tag()
    tree_,    \* HMap::tree_ of the compile-time map of the program, once it is built
    diag      \* what the compiler has rejected the program for so far

vars == <<map_, caps, opts, ret, theTag_, threads, tree_, diag>>

---------------------------------------------------------------------------
(* Bounds of the model *)

\* value holders alive at once: entries of both maps, filled capsules, filled optionals
MaxLive == 2
\* keys named by one batch call (extract, insert, optCheckOut, optCheckIn, make_dynamic_hmap)
MaxBatch == 2
\* threads calling KeyTag<V>::tag() at once
MaxThreads == 2
\* key / value pairs given to make_hmap
MaxPairs == 4

---------------------------------------------------------------------------
(* Types, values and keys *)

Instances == {"myMap", "myMap2"}

Threads == 1..MaxThreads

\* std::string as the sequence of its characters
Strings == {<<1>>, <<1, 2>>}

Types == {"int", "float"}

\* V() : int 0, float 0.0
DefaultValue == 0

\* A float is modelled by the number of halves it holds (3 is 1.5).
ValuesOf(V) == IF V = "float" THEN {0, 3} ELSE {0, 1}

\* std::is_convertible_v<W, V>: arithmetic types convert to each other
is_convertible(W, V) == W = V \/ ({W, V} \subseteq {"int", "float"})

\* The implicit conversion of a W to a V: int -> float is exact,
\* float -> int truncates.
Convert(W, V, x) ==
    IF W = V THEN x
    ELSE IF W = "int" /\ V = "float" THEN 2 * x
    ELSE IF W = "float" /\ V = "int" THEN x \div 2
    ELSE x

\* KeyTag<V>::tag(): the address of the singleton of V, one per type.
tag(V) == CASE V = "int" -> 1 [] V = "float" -> 2

\* detail::Key<V>(k): the string and the type tag
Key(s, V) == [key |-> s, tag |-> V]

\* The keys the calls are made with.
Keys == {Key(<<1>>, "int"), Key(<<1>>, "float"), Key(<<1, 2>>, "int")}

\* std::any holding a V
AnyOf(V, x) == [type |-> V, val |-> x]

\* std::any{} : has_value() is false
EmptyAny == [type |-> "void", val |-> 0]

has_value(a) == a.type # "void"

\* std::any_cast<V&>(a) succeeds iff a holds exactly a V
any_cast_ok(V, a) == a.type = V

\* std::map<KeyBase, std::any>::value_type
Entry(k, a) == [key |-> k, any |-> a]

\* a node handle / iterator result: empty, or an entry
Node(e) == [has |-> TRUE, key |-> e.key, any |-> e.any]

EmptyNode(k) == [has |-> FALSE, key |-> k, any |-> EmptyAny]

\* the tree of a compile-time map that is not declared yet
NoMap == [kind |-> "none"]

---------------------------------------------------------------------------
(* detail::KeyBase comparison *)

RECURSIVE StringLess(_, _)
\* std::string operator< : lexicographic, a proper prefix is smaller
StringLess(a, b) ==
    IF b = <<>> THEN FALSE
    ELSE IF a = <<>> THEN TRUE
    ELSE IF Head(a) # Head(b) THEN Head(a) < Head(b)
    ELSE StringLess(Tail(a), Tail(b))

\* KeyBase::operator< of the header
KeyLess(a, b) ==
    StringLess(a.key, b.key) \/ (a.key = b.key /\ tag(a.tag) < tag(b.tag))

\* KeyBase::operator== of the header
KeyEq(a, b) == a.key = b.key /\ tag(a.tag) = tag(b.tag)

\* KeyBase::operator!= of the header
KeyNe(a, b) == a.key # b.key \/ tag(a.tag) # tag(b.tag)

\* KeyBase::operator< of src/dynamic-hmap.cc
KeyLessOld(a, b) == StringLess(a.key, b.key)

\* KeyBase::operator== of src/dynamic-hmap.cc
KeyEqOld(a, b) == a.key = b.key

\* KeyBase::operator!= of src/dynamic-hmap.cc
KeyNeOld(a, b) == a.key # b.key

\* std::less<KeyBase> of the header's map_, as the relation it computes
Less == {p \in Keys \X Keys : KeyLess(p[1], p[2])}

\* std::less<KeyBase> of the map_ linked with src/dynamic-hmap.cc
LessOld == {p \in Keys \X Keys : KeyLessOld(p[1], p[2])}

---------------------------------------------------------------------------
(* std::map<KeyBase, std::any> under the ordering lt; S is its set of entries *)

\* keys neither of which is less than the other are the same key to the map
equivalent(lt, a, b) == <<a, b>> \notin lt /\ <<b, a>> \notin lt

\* a lookup that compares the strings only
map_find_text(lt, S, k) == {e \in S : e.key.key = k.key}

\* map_.find(k): the entry found (none: the end iterator)
map_find(lt, S, k) == {e \in S : equivalent(lt, e.key, k)}

\* a try_emplace that assigns when the key is already there
map_try_emplace_assigns(lt, S, k, a) == (S \ map_find(lt, S, k)) \cup {Entry(k, a)}

\* map_.try_emplace(k, a)
map_try_emplace(lt, S, k, a) ==
    IF map_find(lt, S, k) = {} THEN S \cup {Entry(k, a)} ELSE S

\* an insert_or_assign that leaves the value of a key already there
map_insert_or_assign_keeps(lt, S, k, a) ==
    IF map_find(lt, S, k) = {} THEN S \cup {Entry(k, a)} ELSE S

\* map_.insert_or_assign(k, a): the stored key is kept on assignment
map_insert_or_assign(lt, S, k, a) ==
    IF map_find(lt, S, k) = {} THEN S \cup {Entry(k, a)}
    ELSE (S \ map_find(lt, S, k)) \cup {Entry(e.key, a) : e \in map_find(lt, S, k)}

\* map_[k]: a missing entry is created with an empty std::any
map_subscript(lt, S, k) == map_try_emplace(lt, S, k, EmptyAny)

\* an extract that hands the node out and leaves the entry in the map
map_extract_keeps(lt, S, k) == S

\* map_.extract(k): the map without the entry
map_extract(lt, S, k) == S \ map_find(lt, S, k)

\* an extract whose node handle has let the entry's holder go
map_extract_node_lost(lt, S, k) == EmptyNode(k)

\* the node handle map_.extract(k) returns
map_extract_node(lt, S, k) ==
    IF map_find(lt, S, k) = {} THEN EmptyNode(k)
    ELSE Node(CHOOSE e \in map_find(lt, S, k) : TRUE)

\* the entry an iterator returned by find / try_emplace / insert_or_assign is at
map_iterator(lt, S, k) ==
    IF map_find(lt, S, k) = {} THEN EmptyNode(k)
    ELSE Node(CHOOSE e \in map_find(lt, S, k) : TRUE)

\* an insert that lets the node handle go without storing it
map_insert_node_drops(lt, S, n) == S

\* an insert of a node handle that replaces the entry already there
map_insert_node_overwrites(lt, S, n) ==
    (S \ map_find(lt, S, n.key)) \cup {Entry(n.key, n.any)}

\* map_.insert(node_handle): not inserted when the key is already there
map_insert_node(lt, S, n) ==
    IF map_find(lt, S, n.key) = {} THEN S \cup {Entry(n.key, n.any)} ELSE S

\* value holders alive
Live ==
    Cardinality(map_["myMap"]) + Cardinality(map_["myMap2"])
    + Cardinality({i \in DOMAIN caps : caps[i].second.has})
    + Cardinality({i \in DOMAIN opts : opts[i].has})

\* the record of a call
Ret(op, n, out, err) == [op |-> op, n |-> n, out |-> out, err |-> err]

\* no tuple returned by extract or optCheckOut is waiting for its insert or
\* optCheckIn: the tuple is handed over by the caller's next call on a map,
\* as in example/test-hmap.cc (insert(extract(...), ...), and optCheckOut
\* followed by optCheckIn)
Idle == caps = <<>> /\ opts = <<>>

\* the argument lists of a batch call
KeyTuples == UNION {[1..n -> Keys] : n \in 1..MaxBatch}

\* the permutations of 1..n
Perms(n) == {p \in [1..n -> 1..n] : \A i, j \in 1..n : i # j => p[i] # p[j]}

\* the orders in which the arguments of one call are evaluated, which the
\* language leaves to the compiler: left to right, or right to left
Orders(n) == {[i \in 1..n |-> i], [i \in 1..n |-> n + 1 - i]}

Init ==
    /\ map_ = [m \in Instances |-> {}]
    /\ caps = <<>>
    /\ opts = <<>>
    /\ ret = Ret("make_dynamic_hmap", 0, <<>>, "none")
    /\ theTag_ = [V \in Types |-> [guard |-> "uninitialized", constructed |-> 0]]
    /\ threads = [t \in Threads |-> [pc |-> "idle", V |-> "int", ret |-> 0]]
    /\ tree_ = NoMap
    /\ diag = {}

---------------------------------------------------------------------------
(* The operations of dynamic-hmap.hpp lines 168-525 *)

\* V& operator[](const Key<V>& k)
operator_subscript(m, k) ==
    LET S1 == map_subscript(Less, map_[m], k)
        e == CHOOSE x \in map_find(Less, S1, k) : TRUE
        h == IF has_value(e.any) THEN e.any ELSE AnyOf(k.tag, DefaultValue)
        S2 == (S1 \ {e}) \cup {Entry(e.key, h)}
    IN  /\ Idle
        /\ map_find(Less, map_[m], k) = {} => Live < MaxLive
        /\ map_' = [map_ EXCEPT ![m] = S2]
        /\ ret' = IF any_cast_ok(k.tag, h)
                  THEN Ret("operator[]", 0, <<Node(Entry(e.key, h))>>, "none")
                  ELSE Ret("operator[]", 0, <<>>, "bad_any_cast")
        /\ UNCHANGED <<caps, opts, theTag_, threads, tree_, diag>>

\* the result of map_.at(k) cast to V&, for both at overloads
at_result(op, m, k) ==
    LET f == map_find(Less, map_[m], k) IN
    IF f = {} THEN Ret(op, 0, <<>>, "out_of_range")
    ELSE LET e == CHOOSE x \in f : TRUE IN
         IF any_cast_ok(k.tag, e.any)
         THEN Ret(op, 0, <<Node(e)>>, "none")
         ELSE Ret(op, 0, <<>>, "bad_any_cast")

\* V& at(const Key<V>& k)
at(m, k) ==
    /\ Idle
    /\ ret' = at_result("at", m, k)
    /\ UNCHANGED <<map_, caps, opts, theTag_, threads, tree_, diag>>

\* const V& at(const Key<V>& k) const
at_const(m, k) ==
    /\ Idle
    /\ ret' = at_result("at const", m, k)
    /\ UNCHANGED <<map_, caps, opts, theTag_, threads, tree_, diag>>

\* auto find(const Key<V>& k): the transform iterator over map_.find(k)
find(m, k) ==
    /\ Idle
    /\ ret' = Ret("find", 0, <<map_iterator(Less, map_[m], k)>>, "none")
    /\ UNCHANGED <<map_, caps, opts, theTag_, threads, tree_, diag>>

\* boost::optional<V&> operator()(const Key<V>& k): it->second casts the std::any
operator_call(m, k) ==
    LET it == map_iterator(Less, map_[m], k) IN
    /\ Idle
    /\ ret' = IF it.has /\ ~any_cast_ok(k.tag, it.any)
              THEN Ret("operator()", 0, <<>>, "bad_any_cast")
              ELSE Ret("operator()", 0, <<it>>, "none")
    /\ UNCHANGED <<map_, caps, opts, theTag_, threads, tree_, diag>>

\* try_emplace(k, args...): n is 1 iff inserted, out is the entry the iterator is at
try_emplace(m, k, v) ==
    LET S1 == map_try_emplace(Less, map_[m], k, AnyOf(k.tag, v))
        inserted == map_find(Less, map_[m], k) = {}
    IN  /\ Idle
        /\ inserted => Live < MaxLive
        /\ map_' = [map_ EXCEPT ![m] = S1]
        /\ ret' = Ret("try_emplace", IF inserted THEN 1 ELSE 0,
                      <<map_iterator(Less, S1, k)>>, "none")
        /\ UNCHANGED <<caps, opts, theTag_, threads, tree_, diag>>

\* insert_or_assign(k, args...): n is 1 iff inserted, out is the entry the iterator is at
insert_or_assign(m, k, v) ==
    LET S1 == map_insert_or_assign(Less, map_[m], k, AnyOf(k.tag, v))
        inserted == map_find(Less, map_[m], k) = {}
    IN  /\ Idle
        /\ inserted => Live < MaxLive
        /\ map_' = [map_ EXCEPT ![m] = S1]
        /\ ret' = Ret("insert_or_assign", IF inserted THEN 1 ELSE 0,
                      <<map_iterator(Less, S1, k)>>, "none")
        /\ UNCHANGED <<caps, opts, theTag_, threads, tree_, diag>>

\* size_t erase(const Key<V>& k): n is the number returned
erase(m, k) ==
    LET found == map_find(Less, map_[m], k) IN
    /\ Idle
    /\ map_' = [map_ EXCEPT ![m] = IF found = {} THEN @ ELSE @ \ found]
    /\ ret' = Ret("erase", IF found = {} THEN 0 ELSE 1, <<>>, "none")
    /\ UNCHANGED <<caps, opts, theTag_, threads, tree_, diag>>

\* an extract1 that returns the empty node handle whatever the map holds
extract1_empty(S, k) == [first |-> k, second |-> EmptyNode(k)]

\* extract1(k): the pair of the query key and the node handle
extract1(S, k) == [first |-> k, second |-> map_extract_node(Less, S, k)]

RECURSIVE extract_tuple(_, _, _, _)
\* std::make_tuple(extract1(args)...), the arguments evaluated in the given order
extract_tuple(S, args, order, acc) ==
    IF order = <<>> THEN [map |-> S, tup |-> acc]
    ELSE LET i == Head(order) IN
         extract_tuple(map_extract(Less, S, args[i]), args, Tail(order),
                       [acc EXCEPT ![i] = extract1(S, args[i])])

\* auto extract(Args&&... args)
extract(m, ks, order) ==
    LET r == extract_tuple(map_[m], ks, order,
                           [i \in DOMAIN ks |-> [first |-> ks[i], second |-> EmptyNode(ks[i])]])
    IN  /\ Idle
        /\ map_' = [map_ EXCEPT ![m] = r.map]
        /\ caps' = r.tup
        /\ ret' = Ret("extract", 0, <<>>, "none")
        /\ UNCHANGED <<opts, theTag_, threads, tree_, diag>>

\* map_.get_allocator() == node_handle.get_allocator(): std::allocator always is
allocators_equal == TRUE

\* an insert1 that does not test whether the node handle is empty
insert1_unchecked(S, k, kPrime, node_handle) == map_try_emplace(Less, S, k, node_handle.any)

\* insert1(k, kPrime, node_handle)
insert1(S, k, kPrime, node_handle) ==
    IF node_handle.has
    THEN IF allocators_equal
         THEN IF KeyEq(k, kPrime)
              THEN map_insert_node(Less, S, node_handle)
              ELSE map_try_emplace(Less, S, k, node_handle.any)
         ELSE map_try_emplace(Less, S, k, node_handle.any)
    ELSE S

RECURSIVE insertHelper(_, _, _, _)
\* insertHelper: insert1 on each pair, left to right
insertHelper(S, dataTup, args, i) ==
    IF i > Len(args) THEN S
    ELSE insertHelper(insert1(S, args[i], dataTup[i].first, dataTup[i].second),
                      dataTup, args, i + 1)

\* void insert(std::tuple<Types...>&& tup, Args&&... args)
insert(m, ks) ==
    /\ caps # <<>>
    /\ Len(ks) = Len(caps)
    /\ \A i \in DOMAIN ks : is_convertible(caps[i].first.tag, ks[i].tag)
    /\ map_' = [map_ EXCEPT ![m] = insertHelper(@, caps, ks, 1)]
    /\ caps' = <<>>
    /\ ret' = Ret("insert", 0, <<>>, "none")
    /\ UNCHANGED <<opts, theTag_, threads, tree_, diag>>

\* an optional that is never filled
Optional_none(V, n) == [type |-> V, has |-> FALSE, val |-> 0]

\* boost::optional<V>
Optional(V, n) == [type |-> V, has |-> n.has, val |-> n.any.val]

RECURSIVE optCheckOut_tuple(_, _, _, _)
\* std::make_tuple(optCheckOut1(args)...), the arguments evaluated in the given
\* order; std::any_cast<V&&> throws when the node holds another type
optCheckOut_tuple(S, args, order, acc) ==
    IF order = <<>> THEN [map |-> S, tup |-> acc, err |-> "none"]
    ELSE LET i == Head(order)
             mapNodeHandle == map_extract_node(Less, S, args[i])
             S1 == map_extract(Less, S, args[i])
         IN  IF mapNodeHandle.has /\ ~any_cast_ok(args[i].tag, mapNodeHandle.any)
             THEN [map |-> S1, tup |-> <<>>, err |-> "bad_any_cast"]
             ELSE optCheckOut_tuple(S1, args, Tail(order),
                      [acc EXCEPT ![i] = Optional(args[i].tag, mapNodeHandle)])

\* auto optCheckOut(Args&&... args)
optCheckOut(m, ks, order) ==
    LET r == optCheckOut_tuple(map_[m], ks, order,
                               [i \in DOMAIN ks |-> Optional(ks[i].tag, EmptyNode(ks[i]))])
    IN  /\ Idle
        /\ map_' = [map_ EXCEPT ![m] = r.map]
        /\ opts' = r.tup
        /\ ret' = Ret("optCheckOut", 0, <<>>, r.err)
        /\ UNCHANGED <<caps, theTag_, threads, tree_, diag>>

\* a check-in that skips every holder
optCheckIn1_skips(S, arg, k) == [map |-> S, err |-> "none"]

\* optCheckIn1(arg, k)
optCheckIn1(S, arg, k) ==
    IF arg.has
    THEN LET S1 == map_subscript(Less, S, k)
             e == CHOOSE x \in map_find(Less, S1, k) : TRUE
             vHolder == IF has_value(e.any) THEN e.any ELSE AnyOf(k.tag, DefaultValue)
         IN  IF any_cast_ok(k.tag, vHolder)
             THEN [map |-> (S1 \ {e}) \cup {Entry(e.key, AnyOf(k.tag, arg.val))}, err |-> "none"]
             ELSE [map |-> (S1 \ {e}) \cup {Entry(e.key, vHolder)}, err |-> "bad_any_cast"]
    ELSE [map |-> S, err |-> "none"]

RECURSIVE optCheckInHelper(_, _, _, _)
\* optCheckInHelper: optCheckIn1 on each pair, left to right, until one throws
optCheckInHelper(S, dataTup, args, i) ==
    IF i > Len(args) THEN [map |-> S, err |-> "none"]
    ELSE LET r == optCheckIn1(S, dataTup[i], args[i]) IN
         IF r.err # "none" THEN r
         ELSE optCheckInHelper(r.map, dataTup, args, i + 1)

\* void optCheckIn(std::tuple<Types...>&& tup, Args&&... args)
optCheckIn(m, ks) ==
    LET r == optCheckInHelper(map_[m], opts, ks, 1) IN
    /\ opts # <<>>
    /\ Len(ks) = Len(opts)
    /\ \A i \in DOMAIN ks : ks[i].tag = opts[i].type
    /\ map_' = [map_ EXCEPT ![m] = r.map]
    /\ opts' = <<>>
    /\ ret' = Ret("optCheckIn", 0, <<>>, r.err)
    /\ UNCHANGED <<caps, theTag_, threads, tree_, diag>>

\* the key / value pairs make_dynamic_hmap is called with: (dK<V>(s), v)
KeyValues == {[first |-> k, second |-> AnyOf(k.tag, v)] : k \in Keys, v \in {0, 1, 3}}

KeyValueTuples ==
    UNION {{a \in [1..n -> KeyValues] :
              \A i \in 1..n : a[i].second.val \in ValuesOf(a[i].first.tag)} : n \in 0..MaxBatch}

\* std::sort of argArray by left.first < right.first: the orders it may
\* leave the array in (equivalent keys in either order)
sorted_orders(argArray) ==
    {p \in Perms(Len(argArray)) :
        \A i, j \in 1..Len(argArray) :
            i < j => <<argArray[p[j]].first, argArray[p[i]].first>> \notin Less}

\* a loadHMapImpl that moves nothing into the map
loadHMapImpl_none(S, a, p, i) == S

RECURSIVE loadHMapImpl(_, _, _, _)
\* loadHMapImpl: map_.emplace_hint(map_.cend(), a[I]) for each I in turn
loadHMapImpl(S, a, p, i) ==
    IF i > Len(a) THEN S
    ELSE loadHMapImpl(map_try_emplace(Less, S, a[p[i]].first, a[p[i]].second), a, p, i + 1)

\* auto myMap = make_dynamic_hmap(vs...): constructs an instance that holds nothing yet
make_dynamic_hmap(m, vs, p) ==
    /\ Idle
    /\ map_[m] = {}
    /\ Live + Len(vs) <= MaxLive
    /\ map_' = [map_ EXCEPT ![m] = loadHMapImpl({}, vs, p, 1)]
    /\ ret' = Ret("make_dynamic_hmap", 0, <<>>, "none")
    /\ UNCHANGED <<caps, opts, theTag_, threads, tree_, diag>>

Next ==
    \/ \E k \in Keys : operator_subscript("myMap", k)
    \/ \E k \in Keys : at("myMap", k)
    \/ \E k \in Keys : at_const("myMap", k)
    \/ \E k \in Keys : find("myMap", k)
    \/ \E k \in Keys : operator_call("myMap", k)
    \/ \E k \in Keys : \E v \in ValuesOf(k.tag) : try_emplace("myMap", k, v)
    \/ \E k \in Keys : \E v \in ValuesOf(k.tag) : insert_or_assign("myMap", k, v)
    \/ \E k \in Keys : erase("myMap", k)
    \/ \E ks \in KeyTuples : \E order \in Orders(Len(ks)) : extract("myMap", ks, order)
    \/ \E ks \in KeyTuples : insert("myMap", ks)
    \/ \E ks \in KeyTuples : \E order \in Orders(Len(ks)) : optCheckOut("myMap", ks, order)
    \/ \E ks \in KeyTuples : optCheckIn("myMap", ks)
    \/ \E vs \in KeyValueTuples : \E p \in sorted_orders(vs) : make_dynamic_hmap("myMap", vs, p)

Spec == Init /\ [][Next]_vars

---------------------------------------------------------------------------
(* The revision whose KeyBase comparisons are defined in src/dynamic-hmap.cc:
   the header of that revision (unnamed/part_003) declares them only, and
   its map_ is ordered by the string alone. *)

\* V& operator[](const Key<V>& k)
operator_subscriptOld(m, k) ==
    LET S1 == map_subscript(LessOld, map_[m], k)
        e == CHOOSE x \in map_find(LessOld, S1, k) : TRUE
        h == IF has_value(e.any) THEN e.any ELSE AnyOf(k.tag, DefaultValue)
        S2 == (S1 \ {e}) \cup {Entry(e.key, h)}
    IN  /\ Idle
        /\ map_find(LessOld, map_[m], k) = {} => Live < MaxLive
        /\ map_' = [map_ EXCEPT ![m] = S2]
        /\ ret' = IF any_cast_ok(k.tag, h)
                  THEN Ret("operator[]", 0, <<Node(Entry(e.key, h))>>, "none")
                  ELSE Ret("operator[]", 0, <<>>, "bad_any_cast")
        /\ UNCHANGED <<caps, opts, theTag_, threads, tree_, diag>>

\* V& at(const Key<V>& k)
atOld(m, k) ==
    LET f == map_find(LessOld, map_[m], k) IN
    /\ Idle
    /\ ret' = IF f = {} THEN Ret("at", 0, <<>>, "out_of_range")
              ELSE LET e == CHOOSE x \in f : TRUE IN
                   IF any_cast_ok(k.tag, e.any)
                   THEN Ret("at", 0, <<Node(e)>>, "none")
                   ELSE Ret("at", 0, <<>>, "bad_any_cast")
    /\ UNCHANGED <<map_, caps, opts, theTag_, threads, tree_, diag>>

\* auto find(const Key<V>& k): the end iterator unless the entry found carries V's tag
findOld(m, k) ==
    LET found == map_iterator(LessOld, map_[m], k) IN
    /\ Idle
    /\ ret' = Ret("find", 0,
                  <<IF ~found.has \/ tag(found.key.tag) # tag(k.tag)
                    THEN EmptyNode(k) ELSE found>>, "none")
    /\ UNCHANGED <<map_, caps, opts, theTag_, threads, tree_, diag>>

\* size_t erase(const Key<V>& k)
eraseOld(m, k) ==
    LET found == map_iterator(LessOld, map_[m], k)
        miss == ~found.has \/ tag(found.key.tag) # tag(k.tag)
    IN  /\ Idle
        /\ map_' = [map_ EXCEPT ![m] =
                       IF miss THEN @ ELSE @ \ {Entry(found.key, found.any)}]
        /\ ret' = Ret("erase", IF miss THEN 0 ELSE 1, <<>>, "none")
        /\ UNCHANGED <<caps, opts, theTag_, threads, tree_, diag>>

\* extractOne(k): the pair of the query key and the node handle
extractOne(S, k) == [first |-> k, second |-> map_extract_node(LessOld, S, k)]

RECURSIVE extractOld_tuple(_, _, _, _)
\* std::make_tuple(extractOne(args)...), the arguments evaluated in the given order
extractOld_tuple(S, args, order, acc) ==
    IF order = <<>> THEN [map |-> S, tup |-> acc]
    ELSE LET i == Head(order) IN
         extractOld_tuple(map_extract(LessOld, S, args[i]), args, Tail(order),
                          [acc EXCEPT ![i] = extractOne(S, args[i])])

\* auto extract(Args&&... args)
extractOld(m, ks, order) ==
    LET r == extractOld_tuple(map_[m], ks, order,
                              [i \in DOMAIN ks |-> [first |-> ks[i], second |-> EmptyNode(ks[i])]])
    IN  /\ Idle
        /\ map_' = [map_ EXCEPT ![m] = r.map]
        /\ caps' = r.tup
        /\ ret' = Ret("extract", 0, <<>>, "none")
        /\ UNCHANGED <<opts, theTag_, threads, tree_, diag>>

\* insertOne(k, kPrime, node_handle)
insertOne(S, k, kPrime, node_handle) ==
    IF is_convertible(kPrime.tag, k.tag)
    THEN IF node_handle.has
         THEN IF allocators_equal
              THEN IF KeyEqOld(k, kPrime)
                   THEN map_insert_node(LessOld, S, node_handle)
                   ELSE map_try_emplace(LessOld, S, k, node_handle.any)
              ELSE map_try_emplace(LessOld, S, k, node_handle.any)
         ELSE S
    ELSE S

RECURSIVE insertHelperOld(_, _, _, _)
\* insertHelper: insertOne on each pair, left to right
insertHelperOld(S, dataTup, args, i) ==
    IF i > Len(args) THEN S
    ELSE insertHelperOld(insertOne(S, args[i], dataTup[i].first, dataTup[i].second),
                         dataTup, args, i + 1)

\* void insert(std::tuple<Types...>&& tup, Args&&... args)
insertOld(m, ks) ==
    /\ caps # <<>>
    /\ Len(ks) = Len(caps)
    /\ map_' = [map_ EXCEPT ![m] = insertHelperOld(@, caps, ks, 1)]
    /\ caps' = <<>>
    /\ ret' = Ret("insert", 0, <<>>, "none")
    /\ UNCHANGED <<opts, theTag_, threads, tree_, diag>>

RECURSIVE optCheckOutOld_tuple(_, _, _, _)
\* std::make_tuple(optCheckOutOne(args)...): the node is extracted by the
\* string, and its value is taken only if its key carries V's tag
optCheckOutOld_tuple(S, args, order, acc) ==
    IF order = <<>> THEN [map |-> S, tup |-> acc, err |-> "none"]
    ELSE LET i == Head(order)
             mapNodeHandle == map_extract_node(LessOld, S, args[i])
             S1 == map_extract(LessOld, S, args[i])
             taken == mapNodeHandle.has /\ tag(mapNodeHandle.key.tag) = tag(args[i].tag)
         IN  IF taken /\ ~any_cast_ok(args[i].tag, mapNodeHandle.any)
             THEN [map |-> S1, tup |-> <<>>, err |-> "bad_any_cast"]
             ELSE optCheckOutOld_tuple(S1, args, Tail(order),
                      [acc EXCEPT ![i] =
                          IF taken THEN Optional(args[i].tag, mapNodeHandle)
                          ELSE Optional(args[i].tag, EmptyNode(args[i]))])

\* auto optCheckOut(Args&&... args)
optCheckOutOld(m, ks, order) ==
    LET r == optCheckOutOld_tuple(map_[m], ks, order,
                                  [i \in DOMAIN ks |-> Optional(ks[i].tag, EmptyNode(ks[i]))])
    IN  /\ Idle
        /\ map_' = [map_ EXCEPT ![m] = r.map]
        /\ opts' = r.tup
        /\ ret' = Ret("optCheckOut", 0, <<>>, r.err)
        /\ UNCHANGED <<caps, theTag_, threads, tree_, diag>>

\* optCheckInOne(arg, k)
optCheckInOne(S, arg, k) ==
    IF arg.has
    THEN LET S1 == map_subscript(LessOld, S, k)
             e == CHOOSE x \in map_find(LessOld, S1, k) : TRUE
             vHolder == IF has_value(e.any) THEN e.any ELSE AnyOf(k.tag, DefaultValue)
         IN  IF any_cast_ok(k.tag, vHolder)
             THEN [map |-> (S1 \ {e}) \cup {Entry(e.key, AnyOf(k.tag, arg.val))}, err |-> "none"]
             ELSE [map |-> (S1 \ {e}) \cup {Entry(e.key, vHolder)}, err |-> "bad_any_cast"]
    ELSE [map |-> S, err |-> "none"]

RECURSIVE optCheckInHelperOld(_, _, _, _)
\* optCheckInHelper: optCheckInOne on each pair, left to right, until one throws
optCheckInHelperOld(S, dataTup, args, i) ==
    IF i > Len(args) THEN [map |-> S, err |-> "none"]
    ELSE LET r == optCheckInOne(S, dataTup[i], args[i]) IN
         IF r.err # "none" THEN r
         ELSE optCheckInHelperOld(r.map, dataTup, args, i + 1)

\* void optCheckIn(std::tuple<Types...>&& tup, Args&&... args)
optCheckInOld(m, ks) ==
    LET r == optCheckInHelperOld(map_[m], opts, ks, 1) IN
    /\ opts # <<>>
    /\ Len(ks) = Len(opts)
    /\ \A i \in DOMAIN ks : ks[i].tag = opts[i].type
    /\ map_' = [map_ EXCEPT ![m] = r.map]
    /\ opts' = <<>>
    /\ ret' = Ret("optCheckIn", 0, <<>>, r.err)
    /\ UNCHANGED <<caps, theTag_, threads, tree_, diag>>

RECURSIVE try_emplace_each(_, _, _)
\* the fold of make_dynamic_hmap: map_.try_emplace on each pair, left to right
try_emplace_each(S, vs, i) ==
    IF i > Len(vs) THEN S
    ELSE try_emplace_each(map_try_emplace(LessOld, S, vs[i].first, vs[i].second), vs, i + 1)

\* DynamicHMap make_dynamic_hmap(Vs&& ...vs)
make_dynamic_hmapOld(m, vs) ==
    /\ Idle
    /\ map_[m] = {}
    /\ Live + Len(vs) <= MaxLive
    /\ map_' = [map_ EXCEPT ![m] = try_emplace_each({}, vs, 1)]
    /\ ret' = Ret("make_dynamic_hmap", 0, <<>>, "none")
    /\ UNCHANGED <<caps, opts, theTag_, threads, tree_, diag>>

NextOld ==
    \/ \E k \in Keys : operator_subscriptOld("myMap", k)
    \/ \E k \in Keys : atOld("myMap", k)
    \/ \E k \in Keys : findOld("myMap", k)
    \/ \E k \in Keys : eraseOld("myMap", k)
    \/ \E ks \in KeyTuples : \E order \in Orders(Len(ks)) : extractOld("myMap", ks, order)
    \/ \E ks \in KeyTuples : insertOld("myMap", ks)
    \/ \E ks \in KeyTuples : \E order \in Orders(Len(ks)) : optCheckOutOld("myMap", ks, order)
    \/ \E ks \in KeyTuples : optCheckInOld("myMap", ks)
    \/ \E vs \in KeyValueTuples : make_dynamic_hmapOld("myMap", vs)

SpecOld == Init /\ [][NextOld]_vars

---------------------------------------------------------------------------
(* Two instances filled by try_emplace and insert_or_assign and exchanging
   entries, as in example/test-hmap.cc lines 106-175 *)

NextTransfer ==
    \/ \E m \in Instances : \E k \in Keys : \E v \in ValuesOf(k.tag) : try_emplace(m, k, v)
    \/ \E m \in Instances : \E k \in Keys : \E v \in ValuesOf(k.tag) : insert_or_assign(m, k, v)
    \/ \E m \in Instances : \E k \in Keys : extract(m, <<k>>, <<1>>)
    \/ \E m \in Instances : \E k \in Keys : insert(m, <<k>>)
    \/ \E m \in Instances : \E k \in Keys : at(m, k)

SpecTransfer == Init /\ [][NextTransfer]_vars

---------------------------------------------------------------------------
(* The batch reads: operator()(multi, ...) of dynamic-hmap.hpp lines 446-458,
   and optCopyOut / ptrCopyOut of the revision kept at lines 552-1041 of the
   same file, whose KeyBase comparisons, try_emplace and erase are those of
   lines 1-551. *)

\* the type V*
Pointer(V) == V \o "*"

\* (*this)(k) as operator()(multi, ...) calls it
operator_call1(S, k) ==
    LET it == map_iterator(Less, S, k) IN
    IF it.has /\ ~any_cast_ok(k.tag, it.any)
    THEN [out |-> EmptyNode(k), err |-> "bad_any_cast"]
    ELSE [out |-> it, err |-> "none"]

\* optCopyOutOne(k): an optional reference to the value found
optCopyOutOne(S, k) ==
    LET it == map_iterator(Less, S, k) IN
    IF ~it.has THEN [out |-> EmptyNode(k), err |-> "none"]
    ELSE IF any_cast_ok(k.tag, it.any)
         THEN [out |-> it, err |-> "none"]
         ELSE [out |-> EmptyNode(k), err |-> "bad_any_cast"]

\* ptrCopyOutOne(k): std::any_cast<V*>(map_.at(k)) asks the std::any for a V*
ptrCopyOutOne(S, k) ==
    LET it == map_iterator(Less, S, k) IN
    IF ~it.has THEN [out |-> EmptyNode(k), err |-> "none"]
    ELSE IF any_cast_ok(Pointer(k.tag), it.any)
         THEN [out |-> it, err |-> "none"]
         ELSE [out |-> EmptyNode(k), err |-> "bad_any_cast"]

\* the one-key read a batch read applies to each of its arguments
copyOutOne(op, S, k) ==
    CASE op = "operator()(multi)" -> operator_call1(S, k)
      [] op = "optCopyOut" -> optCopyOutOne(S, k)
      [] op = "ptrCopyOut" -> ptrCopyOutOne(S, k)

\* std::make_tuple(one(args)...): the reads leave the map alone, so the order
\* the arguments are evaluated in does not show; the call throws if one does
copyOut_result(op, S, args) ==
    IF \E i \in DOMAIN args : copyOutOne(op, S, args[i]).err # "none"
    THEN Ret(op, 0, <<>>, "bad_any_cast")
    ELSE Ret(op, 0, [i \in DOMAIN args |-> copyOutOne(op, S, args[i]).out], "none")

\* auto operator()(DynamicHMap::multi_tag, const detail::Key<Vs>& ...ks)
operator_call_multi(m, ks) ==
    /\ Idle
    /\ ret' = copyOut_result("operator()(multi)", map_[m], ks)
    /\ UNCHANGED <<map_, caps, opts, theTag_, threads, tree_, diag>>

\* auto optCopyOut(Args&&... args)
optCopyOut(m, ks) ==
    /\ Idle
    /\ ret' = copyOut_result("optCopyOut", map_[m], ks)
    /\ UNCHANGED <<map_, caps, opts, theTag_, threads, tree_, diag>>

\* auto ptrCopyOut(Args&&... args)
ptrCopyOut(m, ks) ==
    /\ Idle
    /\ ret' = copyOut_result("ptrCopyOut", map_[m], ks)
    /\ UNCHANGED <<map_, caps, opts, theTag_, threads, tree_, diag>>

NextCopyOut ==
    \/ \E k \in Keys : \E v \in ValuesOf(k.tag) : try_emplace("myMap", k, v)
    \/ \E k \in Keys : erase("myMap", k)
    \/ \E ks \in KeyTuples : operator_call_multi("myMap", ks)
    \/ \E ks \in KeyTuples : optCopyOut("myMap", ks)
    \/ \E ks \in KeyTuples : ptrCopyOut("myMap", ks)

SpecCopyOut == Init /\ [][NextCopyOut]_vars

---------------------------------------------------------------------------
(* Construction from key / value pairs (dynamic-hmap.hpp lines 345-359 and
   547-550), the map read back with at and find and emptied again with erase *)

NextBuild ==
    \/ \E vs \in KeyValueTuples : \E p \in sorted_orders(vs) : make_dynamic_hmap("myMap", vs, p)
    \/ \E k \in Keys : at("myMap", k)
    \/ \E k \in Keys : find("myMap", k)
    \/ \E k \in Keys : erase("myMap", k)

SpecBuild == Init /\ [][NextBuild]_vars

---------------------------------------------------------------------------
(* KeyTag<V>::tag() called by several threads (dynamic-hmap.hpp lines 58-68).
   theTag_ is a function-local static: the language has its initializer run
   by the first thread to enter the declaration, the threads that enter
   meanwhile waiting until the initialization is complete. *)

\* a guard that lets a thread in while another one is initializing
guard_acquire_unlocked(g) == IF g = "initialized" THEN "done" ELSE "init"

\* what a thread entering the declaration of a static does, by its guard
guard_acquire(g) ==
    CASE g = "initialized" -> "done"
      [] g = "uninitialized" -> "init"
      [] g = "initializing" -> "wait"

\* a thread calls KeyTag<V>::tag()
tag_call(t, V) ==
    /\ threads[t].pc \in {"idle", "returned"}
    /\ threads' = [threads EXCEPT ![t] = [pc |-> "enter", V |-> V, ret |-> 0]]
    /\ UNCHANGED <<map_, caps, opts, ret, theTag_, tree_, diag>>

\* static KeyTag<V> theTag_ = ...: control enters the declaration
tag_enter(t) ==
    LET V == threads[t].V
        todo == guard_acquire(theTag_[V].guard)
    IN  /\ threads[t].pc = "enter"
        /\ todo # "wait"
        /\ theTag_' = IF todo = "init"
                      THEN [theTag_ EXCEPT ![V].guard = "initializing"]
                      ELSE theTag_
        /\ threads' = [threads EXCEPT ![t].pc =
                          IF todo = "init" THEN "construct" ELSE "return"]
        /\ UNCHANGED <<map_, caps, opts, ret, tree_, diag>>

\* ... = KeyTag<V>(): the initializer runs
tag_construct(t) ==
    LET V == threads[t].V
    IN  /\ threads[t].pc = "construct"
        /\ theTag_' = [theTag_ EXCEPT ![V].constructed = @ + 1]
        /\ threads' = [threads EXCEPT ![t].pc = "release"]
        /\ UNCHANGED <<map_, caps, opts, ret, tree_, diag>>

\* the initialization is complete
tag_release(t) ==
    LET V == threads[t].V
    IN  /\ threads[t].pc = "release"
        /\ theTag_' = [theTag_ EXCEPT ![V].guard = "initialized"]
        /\ threads' = [threads EXCEPT ![t].pc = "return"]
        /\ UNCHANGED <<map_, caps, opts, ret, tree_, diag>>

\* return theTag_: the caller holds the address of the static of V, ret being 0
\* when the object there has not been constructed
tag_return(t) ==
    LET V == threads[t].V
    IN  /\ threads[t].pc = "return"
        /\ threads' = [threads EXCEPT ![t].pc = "returned",
                                      ![t].ret = IF theTag_[V].constructed > 0
                                                 THEN tag(V) ELSE 0]
        /\ UNCHANGED <<map_, caps, opts, ret, theTag_, tree_, diag>>

NextTag ==
    \/ \E t \in Threads : \E V \in Types : tag_call(t, V)
    \/ \E t \in Threads : tag_enter(t)
    \/ \E t \in Threads : tag_construct(t)
    \/ \E t \in Threads : tag_release(t)
    \/ \E t \in Threads : tag_return(t)

SpecTag == Init /\ [][NextTag]_vars

---------------------------------------------------------------------------
(* The compile-time map HMap of include/hmap/hmap.hpp.  A program declares
   one map with make_hmap and then reads and assigns its values through
   operator[]; what the compiler rejects the program for is kept in diag, and
   a rejected program goes no further.  A template's type member and its
   apply function are modelled side by side: the type is what the compiler
   computes, apply is the code it has to accept to carry the values. *)

\* CharList<Cs...>: the key strings the program uses
CharLists == {<<1>>, <<1, 2>>, <<2>>, <<3>>}

\* detail::detail::ValueType<Value, Cs...>: a key string, the type of its
\* value and the stored value v
ValueType(Cs, Value, v) == [key |-> Cs, Value |-> Value, v |-> v]

\* detail::KeyType<Value, Cs...> of TK(s, T)
KeyType(Cs, Value) == [key |-> Cs, Value |-> Value]

\* the values a program gives to make_hmap: 1 for an int, 1.5 for a float
Supplied(V) == IF V = "float" THEN {3} ELSE {1}

\* the pairs (TK(s, T), v) a program may give to make_hmap
ValueTypes ==
    UNION {{ValueType(Cs, V, v) : v \in Supplied(V)} : Cs \in CharLists, V \in Types}

ValueTypeTuples == UNION {[1..n -> ValueTypes] : n \in 0..MaxPairs}

\* detail::KeyLess<Left, Right>::value: the string_views compared
detail_KeyLess(Left, Right) == StringLess(Left.key, Right.key)

\* the absent child of a Node, and the type a failed FindInTree yields
Void == [kind |-> "void"]

\* detail::Node<V, L, R>
TreeNode(V, L, R) == [kind |-> "node", v |-> V, l |-> L, r |-> R]

RECURSIVE Merge(_, _, _)
\* detail::Merge<L, R, Head>::type
Merge(L, R, Hs) ==
    IF L # <<>> /\ R # <<>>
    THEN IF detail_KeyLess(Head(L), Head(R))
         THEN Merge(Tail(L), R, Append(Hs, Head(L)))
         ELSE Merge(L, Tail(R), Append(Hs, Head(R)))
    ELSE IF L # <<>> THEN Hs \o L
    ELSE IF R # <<>> THEN Hs \o R
    ELSE Hs

\* a call the compiler rejects
IllFormed == [wf |-> FALSE, val |-> <<>>]

RECURSIVE Merge_apply(_, _, _)
\* detail::Merge<L, R, Head>::apply(l, r, h) as MergeLesser calls it, with
\* const references. The specialization for an empty L takes r and h by
\* reference to non-const (line 263), which the call cannot bind; the primary
\* template's apply takes one argument.
Merge_apply(l, r, h) ==
    IF l # <<>> /\ r # <<>>
    THEN \* MergeLesser<..., TakeLeft>::apply
         IF detail_KeyLess(Head(l), Head(r))
         THEN Merge_apply(Tail(l), r, Append(h, Head(l)))
         ELSE Merge_apply(l, Tail(r), Append(h, Head(r)))
    ELSE IF l # <<>> THEN [wf |-> TRUE, val |-> h \o l]
    ELSE IllFormed

RECURSIVE MergeN(_, _)
\* detail::MergeN<Head, Ls...>::type
MergeN(Hs, Ls) ==
    IF Len(Ls) >= 2
    THEN MergeN(Append(Hs, Merge(Ls[1], Ls[2], <<>>)), Tail(Tail(Ls)))
    ELSE IF Hs # <<>> /\ Len(Ls) = 1 THEN MergeN(<<>>, Append(Hs, Ls[1]))
    ELSE IF Hs # <<>> THEN MergeN(<<>>, Hs)
    ELSE IF Len(Ls) = 1 THEN Ls[1]
    ELSE <<>>

RECURSIVE MergeN_apply(_, _)
\* detail::MergeN<Head, Ls...>::apply(head, l...)
MergeN_apply(head, ls) ==
    IF Len(ls) >= 2
    THEN LET m == Merge_apply(ls[1], ls[2], <<>>)
         IN  IF m.wf THEN MergeN_apply(Append(head, m.val), Tail(Tail(ls)))
             ELSE IllFormed
    ELSE IF head # <<>> /\ Len(ls) = 1 THEN MergeN_apply(<<>>, Append(head, ls[1]))
    ELSE IF head # <<>> THEN MergeN_apply(<<>>, head)
    ELSE IF Len(ls) = 1 THEN [wf |-> TRUE, val |-> ls[1]]
    ELSE [wf |-> TRUE, val |-> <<>>]

\* detail::MergeSort<KTs...>::type: MergeN on singleton sequences
MergeSort(KTs) == MergeN(<<>>, [i \in DOMAIN KTs |-> <<KTs[i]>>])

\* detail::MergeSort<KTs...>::apply(args...)
MergeSort_apply(args) == MergeN_apply(<<>>, [i \in DOMAIN args |-> <<args[i]>>])

\* a split that never moves an element to the left
Split_first(Ls, Rs, TargetLeft) == [Left |-> Ls, Here |-> Head(Rs), Right |-> Tail(Rs)]

RECURSIVE Split(_, _, _)
\* detail::Split / SplitJointIf: H moves to the left until the left holds
\* TargetLeft elements
Split(Ls, Rs, TargetLeft) ==
    IF Len(Ls) = TargetLeft
    THEN [Left |-> Ls, Here |-> Head(Rs), Right |-> Tail(Rs)]
    ELSE Split(Append(Ls, Head(Rs)), Tail(Rs), TargetLeft)

RECURSIVE SortedToTree(_)
\* detail::SortedToTree<Node, tuple<HeadT, TailTs...>>: type and apply
SortedToTree(HL) ==
    IF HL = <<>> THEN Void
    ELSE LET SplitThunk == Split(<<>>, HL, (Len(HL) - 1) \div 2)
         IN  TreeNode(SplitThunk.Here,
                      SortedToTree(SplitThunk.Left),
                      SortedToTree(SplitThunk.Right))

\* a lookup that stops at the root
FindInTree_root(FindMe, T) == IF T.kind = "node" THEN T.v ELSE Void

RECURSIVE FindInTree(_, _)
\* detail::FindInTree<FindMe, Tree>: the pair whose key is neither less nor
\* greater than FindMe (type, and apply on the tree), Void when a missing
\* child is reached
FindInTree(FindMe, T) ==
    IF T.kind # "node" THEN Void
    ELSE IF detail_KeyLess(FindMe, T.v) THEN FindInTree(FindMe, T.l)
    ELSE IF detail_KeyLess(T.v, FindMe) THEN FindInTree(FindMe, T.r)
    ELSE T.v

\* an assignment that always lands in the root's slot
AssignInTree_root(FindMe, T, x) ==
    IF T.kind # "node" THEN T ELSE [T EXCEPT !.v.v = x]

RECURSIVE AssignInTree(_, _, _)
\* HMapSafeIndexer<Thunk, Tree, ValueType>::apply(tree_) = x: the reference
\* FindInTree::apply returns is assigned through
AssignInTree(FindMe, T, x) ==
    IF T.kind # "node" THEN T
    ELSE IF detail_KeyLess(FindMe, T.v)
         THEN [T EXCEPT !.l = AssignInTree(FindMe, T.l, x)]
    ELSE IF detail_KeyLess(T.v, FindMe)
         THEN [T EXCEPT !.r = AssignInTree(FindMe, T.r, x)]
    ELSE [T EXCEPT !.v.v = x]

\* a uniqueness test that accepts every sequence
NoRepeats_any(Args) == TRUE

RECURSIVE NoRepeats(_)
\* detail::NoRepeats<Args...>::value: no two adjacent elements are the same
NoRepeats(Args) ==
    IF Len(Args) < 2 THEN TRUE
    ELSE IF Args[1] = Args[2] THEN FALSE
    ELSE NoRepeats(Tail(Args))

\* detail::NoRepeatsDispatcher<tuple<Args...>>::value, on the Typeless of the pairs
NoRepeatsDispatcher(Sorted) == NoRepeats([i \in DOMAIN Sorted |-> Sorted[i].key])

\* what the compiler rejects HMap<KeyTypes...>(values...) for
HMap_diag(values) ==
    LET Sorted == MergeSort(values)
    IN  (IF NoRepeatsDispatcher(Sorted) THEN {} ELSE {"DuplicateKey"})
        \cup (IF MergeSort_apply(values).wf /\ Sorted # <<>> THEN {} ELSE {"IllFormed"})

\* auto myMap = make_hmap(values...): HMap::HMap(Values&&...); out is the
\* pairs the program gave
make_hmap(values) ==
    /\ tree_ = NoMap
    /\ diag = {}
    /\ diag' = HMap_diag(values)
    /\ tree_' = IF HMap_diag(values) = {}
                THEN SortedToTree(MergeSort_apply(values).val)
                ELSE NoMap
    /\ ret' = Ret("make_hmap", Len(values), values, "none")
    /\ UNCHANGED <<map_, caps, opts, theTag_, threads>>

\* what the compiler rejects myMap[TK(s, T)] for
TK_diag(T, KT) ==
    LET VT == FindInTree(KT, T)
    IN  IF VT = Void THEN {"UnknownKey"}
        ELSE IF VT.Value # KT.Value THEN {"WrongValueType"}
        ELSE {}

\* what the compiler rejects myMap[IK(s)] for
IK_diag(T, KT) == IF FindInTree(KT, T) = Void THEN {"UnknownKey"} ELSE {}

\* myMap[TK(s, T)]: operator[] for a detail::KeyType, out is the pair read
subscript_TK(KT) ==
    /\ tree_ # NoMap
    /\ diag = {}
    /\ diag' = TK_diag(tree_, KT)
    /\ ret' = Ret("operator[](TK)", 0,
                  IF TK_diag(tree_, KT) = {} THEN <<FindInTree(KT, tree_)>> ELSE <<>>,
                  "none")
    /\ UNCHANGED <<map_, caps, opts, theTag_, threads, tree_>>

\* myMap[IK(s)]: operator[] for a detail::CharList, out is the pair read
subscript_IK(KT) ==
    /\ tree_ # NoMap
    /\ diag = {}
    /\ diag' = IK_diag(tree_, KT)
    /\ ret' = Ret("operator[](IK)", 0,
                  IF IK_diag(tree_, KT) = {} THEN <<FindInTree(KT, tree_)>> ELSE <<>>,
                  "none")
    /\ UNCHANGED <<map_, caps, opts, theTag_, threads, tree_>>

\* myMap[TK(s, T)] = x; out is the pair written
assign_TK(KT, x) ==
    /\ tree_ # NoMap
    /\ diag = {}
    /\ diag' = TK_diag(tree_, KT)
    /\ tree_' = IF TK_diag(tree_, KT) = {} THEN AssignInTree(KT, tree_, x) ELSE tree_
    /\ ret' = Ret("operator[](TK)=", 0,
                  IF TK_diag(tree_, KT) = {} THEN <<ValueType(KT.key, KT.Value, x)>> ELSE <<>>,
                  "none")
    /\ UNCHANGED <<map_, caps, opts, theTag_, threads>>

\* myMap[IK(s)] = x, x of the type of the value found; out is the pair written
assign_IK(KT, x) ==
    /\ tree_ # NoMap
    /\ diag = {}
    /\ FindInTree(KT, tree_) # Void => x \in ValuesOf(FindInTree(KT, tree_).Value)
    /\ diag' = IK_diag(tree_, KT)
    /\ tree_' = IF IK_diag(tree_, KT) = {} THEN AssignInTree(KT, tree_, x) ELSE tree_
    /\ ret' = Ret("operator[](IK)=", 0,
                  IF IK_diag(tree_, KT) = {}
                  THEN <<ValueType(KT.key, FindInTree(KT, tree_).Value, x)>> ELSE <<>>,
                  "none")
    /\ UNCHANGED <<map_, caps, opts, theTag_, threads>>

\* the values a program assigns
AssignedValues == UNION {ValuesOf(V) : V \in Types}

\* the argument lists of the declaration of the map, while there is none
Declarations == IF tree_ = NoMap /\ diag = {} THEN ValueTypeTuples ELSE {}

NextStatic ==
    \/ \E values \in Declarations : make_hmap(values)
    \/ \E Cs \in CharLists : \E V \in Types : subscript_TK(KeyType(Cs, V))
    \/ \E Cs \in CharLists : subscript_IK([key |-> Cs])
    \/ \E Cs \in CharLists : \E V \in Types : \E x \in ValuesOf(V) : assign_TK(KeyType(Cs, V), x)
    \/ \E Cs \in CharLists : \E x \in AssignedValues : assign_IK([key |-> Cs], x)

SpecStatic == Init /\ [][NextStatic]_vars

---------------------------------------------------------------------------
(* Properties *)

\* the entries of instance m stored under the full key k (string and type)
Stored(m, k) == {e \in map_[m] : e.key.key = k.key /\ e.key.tag = k.tag}

\* the entries of instance m stored under other keys than k
Others(m, k) == map_[m] \ Stored(m, k)

\* C4: erase(k) on an absent full key returns 0 and changes nothing; on a
\* present full key it returns 1, removes exactly the entry under k (the size
\* decreases by 1) and leaves every other entry unchanged.
C4_Erase ==
    [][\A k \in Keys : erase("myMap", k) =>
          IF Stored("myMap", k) = {}
          THEN ret'.n = 0 /\ map_' = map_
          ELSE /\ ret'.n = 1
               /\ map_'["myMap"] = Others("myMap", k)
               /\ Cardinality(map_'["myMap"]) = Cardinality(map_["myMap"]) - 1]_vars

\* erase has returned 1 and the map still holds another entry
C4_Witness ==
    /\ ret.op = "erase" /\ ret.n = 1
    /\ map_["myMap"] # {}

\* C1: in every state reached without unsafe_insert_or_assign, each entry's
\* holder holds the type its key encodes, and no read raises a type mismatch.
C1_HolderMatchesKey ==
    /\ \A e \in map_["myMap"] : e.any.type = e.key.tag
    /\ ret.err # "bad_any_cast"

\* C10: insert of a filled capsule extracted under a key of type W, placed
\* under a key of another type V that is absent from the destination, leaves
\* the destination holding a V converted from the capsule's W.
C10_ConvertingInsert ==
    [][\A k \in Keys :
          (/\ insert("myMap", <<k>>)
           /\ caps[1].second.has
           /\ caps[1].second.any.type = caps[1].first.tag
           /\ caps[1].first.tag # k.tag
           /\ Stored("myMap", k) = {})
          => Entry(k, AnyOf(k.tag, Convert(caps[1].first.tag, k.tag, caps[1].second.any.val)))
                 \in map_'["myMap"]]_vars

\* C5: at(k), mutable or const, returns the stored value when an entry exists
\* under the full key k and raises the key-not-found error otherwise; the map
\* is unchanged either way.
C5_At ==
    [][\A k \in Keys : (at("myMap", k) \/ at_const("myMap", k)) =>
          /\ map_' = map_
          /\ IF Stored("myMap", k) = {}
             THEN ret'.err = "out_of_range"
             ELSE /\ ret'.err = "none"
                  /\ \E e \in Stored("myMap", k) : ret'.out = <<Node(e)>>]_vars

\* C6: operator[](k) on an absent full key inserts a default-constructed value
\* of k's type and returns it (size + 1); on a present full key it returns the
\* stored value and changes nothing.
C6_Subscript ==
    [][\A k \in Keys : operator_subscript("myMap", k) =>
          /\ ret'.err = "none"
          /\ IF Stored("myMap", k) = {}
             THEN /\ map_'["myMap"] = map_["myMap"] \cup {Entry(k, AnyOf(k.tag, DefaultValue))}
                  /\ Cardinality(map_'["myMap"]) = Cardinality(map_["myMap"]) + 1
                  /\ ret'.out = <<Node(Entry(k, AnyOf(k.tag, DefaultValue)))>>
             ELSE /\ map_' = map_
                  /\ \E e \in Stored("myMap", k) : ret'.out = <<Node(e)>>]_vars

\* C7: find(k) is the end sentinel exactly when no entry is stored under the
\* full key k, and otherwise the iterator reads the stored value as k's type;
\* operator()(k) is filled exactly when find(k) is not the sentinel; neither
\* changes the map.
C7_FindAndCall ==
    [][\A k \in Keys :
          /\ find("myMap", k) =>
                /\ map_' = map_
                /\ ret'.out[1].has <=> Stored("myMap", k) # {}
                /\ ret'.out[1].has =>
                      /\ any_cast_ok(k.tag, ret'.out[1].any)
                      /\ Entry(k, ret'.out[1].any) \in map_["myMap"]
          /\ operator_call("myMap", k) =>
                /\ map_' = map_
                /\ ret'.err = "none"
                /\ ret'.out[1].has <=> Stored("myMap", k) # {}]_vars

\* the keys a tuple of capsules was asked for
Asked(tup) == [i \in DOMAIN tup |-> tup[i].first]

\* the keys named by ks that instance m holds an entry for
NamedPresent(m, ks) == {k \in {ks[i] : i \in DOMAIN ks} : Stored(m, k) # {}}

\* what extract(ks) leaves of the map: the entries under named keys are gone,
\* the others are unchanged, the size drops by the number of distinct named
\* keys that were present
ExtractFrame(m, ks) ==
    /\ map_'[m] = {e \in map_[m] : \A i \in DOMAIN ks : e.key # ks[i]}
    /\ Cardinality(map_'[m]) = Cardinality(map_[m]) - Cardinality(NamedPresent(m, ks))

\* the capsule at position i pairs the query key with the untouched holder
FilledWith(m, ks, i) ==
    /\ caps'[i].first = ks[i]
    /\ caps'[i].second.has
    /\ Entry(ks[i], caps'[i].second.any) \in map_[m]

\* C8 as stated: every position naming a present key gets a filled capsule
\* pairing the query key with the untouched holder, every position naming an
\* absent key gets an empty one; named entries are removed, the others are
\* unchanged, and the size drops by the number of distinct present named keys.
C8_ExtractEveryPosition ==
    [][ret'.op = "extract" =>
          LET ks == Asked(caps') IN
          (\E order \in Orders(Len(ks)) : extract("myMap", ks, order)) =>
              /\ \A i \in DOMAIN ks :
                    IF Stored("myMap", ks[i]) # {}
                    THEN FilledWith("myMap", ks, i)
                    ELSE ~caps'[i].second.has
              /\ ExtractFrame("myMap", ks)]_vars

\* C8 amended: for a present key, exactly one of the positions naming it gets
\* the filled capsule (pairing the query key with the untouched holder) and
\* the other positions naming it get empty ones; every position naming an
\* absent key gets an empty one; named entries are removed, the others are
\* unchanged, and the size drops by the number of distinct present named keys.
C8_ExtractOnePositionPerKey ==
    [][ret'.op = "extract" =>
          LET ks == Asked(caps') IN
          (\E order \in Orders(Len(ks)) : extract("myMap", ks, order)) =>
              /\ \A k \in NamedPresent("myMap", ks) :
                    \E i \in DOMAIN ks :
                        /\ ks[i] = k
                        /\ FilledWith("myMap", ks, i)
                        /\ \A j \in DOMAIN ks : (ks[j] = k /\ j # i) => ~caps'[j].second.has
              /\ \A i \in DOMAIN ks :
                    Stored("myMap", ks[i]) = {} => ~caps'[i].second.has
              /\ ExtractFrame("myMap", ks)]_vars

\* extract named one present key twice: one capsule is filled, the other empty
C8_Witness ==
    /\ ret.op = "extract"
    /\ Len(caps) = 2
    /\ caps[1].first = caps[2].first
    /\ caps[1].second.has # caps[2].second.has

\* instance m holds an entry under k's string and another type, none under k
OnlyOtherType(m, k) ==
    /\ Stored(m, k) = {}
    /\ \E e \in map_[m] : e.key.key = k.key /\ e.key.tag # k.tag

\* C2: keys of the same string and different types are independent entries:
\* storing under (s, U) while (s, T) is held adds an entry (the size grows by
\* one more) and leaves the (s, T) entry as it was, each reads back its own
\* value, and erasing one returns 1 and leaves the other with its value.
C2_SameStringIndependent ==
    [][\A k \in Keys :
          /\ (operator_subscriptOld("myMap", k) /\ OnlyOtherType("myMap", k)) =>
                /\ ret'.err = "none"
                /\ ret'.out = <<Node(Entry(k, AnyOf(k.tag, DefaultValue)))>>
                /\ map_'["myMap"] = map_["myMap"] \cup {Entry(k, AnyOf(k.tag, DefaultValue))}
                /\ Cardinality(map_'["myMap"]) = Cardinality(map_["myMap"]) + 1
          /\ (atOld("myMap", k) /\ Stored("myMap", k) # {}) =>
                /\ ret'.err = "none"
                /\ \E e \in Stored("myMap", k) : ret'.out = <<Node(e)>>
          /\ (eraseOld("myMap", k) /\ Stored("myMap", k) # {}) =>
                /\ ret'.n = 1
                /\ map_'["myMap"] = Others("myMap", k)]_vars

\* C3: when the map holds an entry under (s, U) and none under (s, T),
\* erase((s, T)) returns 0, extract((s, T)) returns an empty capsule and
\* optCheckOut((s, T)) returns an empty holder, and the map is left unchanged.
C3_DetachMatchesFullKey ==
    [][\A k \in Keys : OnlyOtherType("myMap", k) =>
          /\ eraseOld("myMap", k) => (ret'.n = 0 /\ map_' = map_)
          /\ extractOld("myMap", <<k>>, <<1>>) => (~caps'[1].second.has /\ map_' = map_)
          /\ optCheckOutOld("myMap", <<k>>, <<1>>) =>
                (ret'.err = "none" /\ ~opts'[1].has /\ map_' = map_)]_vars

\* C9 as stated: inserting the filled capsule extracted under K back under K,
\* into either instance, leaves that instance with an entry at K holding the
\* extracted value.
C9_ExtractInsertAnyDestination ==
    [][\A m \in Instances : \A k \in Keys :
          (insert(m, <<k>>) /\ caps[1].first = k /\ caps[1].second.has)
          => Entry(k, caps[1].second.any) \in map_'[m]]_vars

\* C9 amended: inserting the filled capsule extracted under K back under K,
\* into either instance, leaves that instance with an entry at K holding the
\* extracted value, provided the instance holds no entry at K when insert is
\* called.
C9_ExtractInsertAbsentDestination ==
    [][\A m \in Instances : \A k \in Keys :
          (insert(m, <<k>>) /\ caps[1].first = k /\ caps[1].second.has
              /\ Stored(m, k) = {})
          => /\ Entry(k, caps[1].second.any) \in map_'[m]
             /\ Stored(m, k)' = {Entry(k, caps[1].second.any)}]_vars

\* after an insert both instances hold entries, and myMap2 holds none under a
\* key that myMap holds
C9_Witness ==
    /\ ret.op = "insert"
    /\ map_["myMap2"] # {}
    /\ map_["myMap"] # {}
    /\ \A e \in map_["myMap2"] : \A f \in map_["myMap"] : e.key # f.key

\* every entry of instance m under a key named by ks holds its key's type
NamedWellTyped(m, ks) ==
    \A i \in DOMAIN ks : \A e \in Stored(m, ks[i]) : e.any.type = e.key.tag

\* the holder at position i is filled with the value stored under ks[i]
HolderFilledWith(m, ks, i) ==
    /\ opts'[i].has
    /\ opts'[i].type = ks[i].tag
    /\ \E e \in Stored(m, ks[i]) : opts'[i].val = e.any.val

\* the argument lists an optCheckOut step that returned opts' may have had
CheckedOut(tup) ==
    {ks \in KeyTuples : Len(ks) = Len(tup) /\ \A i \in DOMAIN ks : tup[i].type = ks[i].tag}

RoundTrip(S, ks, order) ==
    LET out == optCheckOut_tuple(S, ks, order,
                                 [i \in DOMAIN ks |-> Optional(ks[i].tag, EmptyNode(ks[i]))])
    IN  IF out.err # "none" THEN [map |-> out.map, err |-> out.err]
        ELSE optCheckInHelper(out.map, out.tup, ks, 1)

\* C12: in any state of the map and for any keys K1..Kn, present or absent,
\* optCheckOut(K1..Kn) immediately followed by optCheckIn(result, K1..Kn)
\* restores the map to its key set, values and size of before the checkout.
C12_CheckOutCheckInRestores ==
    Idle => \A ks \in KeyTuples : \A order \in Orders(Len(ks)) :
                RoundTrip(map_["myMap"], ks, order) = [map |-> map_["myMap"], err |-> "none"]

\* the positions of ks that pair the key k with a filled holder of opts
FilledFor(ks, k) == {i \in DOMAIN ks : ks[i] = k /\ opts[i].has}

\* the last position of a non-empty set of positions
Last(F) == CHOOSE i \in F : \A j \in F : j <= i

\* the entries of instance m under keys that ks does not name
NotNamed(m, ks) == {e \in map_[m] : \A i \in DOMAIN ks : e.key # ks[i]}

C14_CopyOutNonDestructive ==
    [][\A ks \in KeyTuples :
          (\/ operator_call_multi("myMap", ks)
           \/ optCopyOut("myMap", ks)
           \/ ptrCopyOut("myMap", ks)) =>
              /\ map_' = map_
              /\ ret'.err = "none"
              /\ Len(ret'.out) = Len(ks)
              /\ \A i \in DOMAIN ks :
                    /\ ret'.out[i].has <=> Stored("myMap", ks[i]) # {}
                    /\ ret'.out[i].has => Entry(ks[i], ret'.out[i].any) \in map_["myMap"]]_vars

\* C15: every batch transfer operation (extract, insert, optCheckOut,
\* optCheckIn, operator()(multi, ...), optCopyOut, ptrCopyOut) returns without
\* raising an error, whatever keys it is given.
C15_BatchTransfersTotal ==
    ret.op \in {"extract", "insert", "optCheckOut", "optCheckIn",
                "operator()(multi)", "optCopyOut", "ptrCopyOut"}
        => ret.err = "none"

\* the destination keys insert may be called with for the capsules in flight
Destinations ==
    {ks \in KeyTuples : Len(ks) = Len(caps)
        /\ \A i \in DOMAIN ks : is_convertible(caps[i].first.tag, ks[i].tag)}

\* the entries of the set S under the full key k
StoredIn(S, k) == {e \in S : e.key.key = k.key /\ e.key.tag = k.tag}

\* C16: insert given an empty capsule does nothing for that pair: no entry is
\* created under its destination key, and a call given empty capsules only
\* leaves the map's key set, values and size unchanged, while the other pairs
\* of the call are still processed (a filled capsule inserted under its own
\* key leaves an entry under that key).
C16_EmptyCapsuleIgnored ==
    \A ks \in Destinations :
        LET before == map_["myMap"]
            after == insertHelper(before, caps, ks, 1)
        IN  /\ (\A i \in DOMAIN ks : ~caps[i].second.has) => after = before
            /\ \A i \in DOMAIN ks :
                  (/\ ~caps[i].second.has
                   /\ \A j \in DOMAIN ks : caps[j].second.has => ks[j] # ks[i])
                  => StoredIn(after, ks[i]) = StoredIn(before, ks[i])
            /\ \A j \in DOMAIN ks :
                  (caps[j].second.has /\ ks[j] = caps[j].first)
                  => StoredIn(after, ks[j]) # {}

\* extract has returned an empty capsule followed by a filled one, and the
\* map holds no entry
C16_Witness ==
    /\ Len(caps) = 2
    /\ ~caps[1].second.has
    /\ caps[2].second.has
    /\ map_["myMap"] = {}

\* insert(extract(K1), K2) on the map S, as insertHelper and extract_tuple
\* compute it
Rekey(S, K1, K2) ==
    LET out == extract_tuple(S, <<K1>>, <<1>>,
                             <<[first |-> K1, second |-> EmptyNode(K1)]>>)
    IN  insertHelper(out.map, out.tup, <<K2>>, 1)

\* C17: re-keying within one map: when the map holds a value under K1 and
\* no entry under K2, K1 and K2 having the same type and different strings,
\* insert(extract(K1), K2) leaves K1 absent, K2 present with the value K1
\* had, the size unchanged and every other entry unchanged.
C17_Rekey ==
    \A K1, K2 \in Keys :
        LET before == map_["myMap"]
            after == Rekey(before, K1, K2)
        IN  (/\ Idle
             /\ K1.tag = K2.tag
             /\ K1.key # K2.key
             /\ StoredIn(before, K1) # {}
             /\ StoredIn(before, K2) = {})
            => /\ StoredIn(after, K1) = {}
               /\ StoredIn(after, K2) =
                      {Entry(K2, e.any) : e \in StoredIn(before, K1)}
               /\ Cardinality(after) = Cardinality(before)
               /\ after \ StoredIn(after, K2) = before \ StoredIn(before, K1)

\* the map holds a value under one string and none under another string of
\* the same type, next to an entry of another key
C17_Witness ==
    /\ Idle
    /\ \E K1, K2 \in Keys :
          /\ K1.tag = K2.tag
          /\ K1.key # K2.key
          /\ StoredIn(map_["myMap"], K1) # {}
          /\ StoredIn(map_["myMap"], K2) = {}
          /\ Cardinality(map_["myMap"]) = 2

\* the instance that is not m
Other(m) == CHOOSE o \in Instances : o # m

\* C18: over any sequence of extract and insert between two instances, a
\* stored value is held in one place at most among the two maps and the
\* capsule not yet inserted. An extract step leaves the key absent from its
\* map and moves the holder to the capsule, the number of holders alive being
\* kept; an insert step hands the capsule over, creates nothing but an entry
\* of the capsule's holder under the destination key in its map, leaves the
\* other instance unchanged and never raises the number of holders alive.
C18_HeldInOnePlace ==
    [][ /\ \A m \in Instances : \A k \in Keys :
              extract(m, <<k>>, <<1>>)
              => /\ Stored(m, k)' = {}
                 /\ caps'[1].second.has <=> Stored(m, k) # {}
                 /\ caps'[1].second.has
                        => Stored(m, k) = {Entry(k, caps'[1].second.any)}
                 /\ Live' = Live
                 /\ map_'[Other(m)] = map_[Other(m)]
        /\ \A m \in Instances : \A k \in Keys :
              insert(m, <<k>>)
              => /\ caps' = <<>>
                 /\ map_[m] \subseteq map_'[m]
                 /\ map_'[m] \ map_[m] \subseteq {Entry(k, caps[1].second.any)}
                 /\ map_'[m] # map_[m] => caps[1].second.has
                 /\ Live' <= Live
                 /\ map_'[Other(m)] = map_[Other(m)]
      ]_vars

\* an entry extracted from myMap has been inserted in myMap2: myMap2 holds
\* it and myMap holds nothing
C18_Witness ==
    /\ ret.op = "insert"
    /\ map_["myMap"] = {}
    /\ Cardinality(map_["myMap2"]) = 2

\* C19: insert_or_assign(k, v) returns inserted = true exactly when the full
\* key k was absent; either way the map afterwards holds v under k and the
\* iterator returned is at that entry; the size grows by 1 exactly when
\* inserted is true, and every other entry, of this and of the other
\* instance, is unchanged.
C19_InsertOrAssign ==
    [][ ret'.op = "insert_or_assign" =>
        \A m \in Instances : \A k \in Keys : \A v \in ValuesOf(k.tag) :
            insert_or_assign(m, k, v)
            => /\ ret'.n = 1 <=> Stored(m, k) = {}
               /\ Stored(m, k)' = {Entry(k, AnyOf(k.tag, v))}
               /\ ret'.out = <<Node(Entry(k, AnyOf(k.tag, v)))>>
               /\ Cardinality(map_'[m]) = Cardinality(map_[m]) + ret'.n
               /\ Others(m, k)' = Others(m, k)
               /\ map_'[Other(m)] = map_[Other(m)]
      ]_vars

\* insert_or_assign has assigned to a key that was present, next to an entry
\* of another key
C19_Witness ==
    /\ ret.op = "insert_or_assign"
    /\ ret.n = 0
    /\ ret.out[1].has
    /\ Cardinality(map_["myMap"]) = 2

\* C20: try_emplace(k, v) returns inserted = true exactly when the full key
\* k was absent. When k was present the stored value is left as it was, the
\* size is unchanged and the iterator returned is at the existing entry;
\* when k was absent the map afterwards holds v under k and the size has
\* grown by 1. Every other entry is unchanged.
C20_TryEmplace ==
    [][ ret'.op = "try_emplace" =>
        \A m \in Instances : \A k \in Keys : \A v \in ValuesOf(k.tag) :
            try_emplace(m, k, v)
            => /\ ret'.n = 1 <=> Stored(m, k) = {}
               /\ Stored(m, k) # {}
                    => /\ map_'[m] = map_[m]
                       /\ \E e \in Stored(m, k) : ret'.out = <<Node(e)>>
               /\ Stored(m, k) = {}
                    => /\ Stored(m, k)' = {Entry(k, AnyOf(k.tag, v))}
                       /\ ret'.out = <<Node(Entry(k, AnyOf(k.tag, v)))>>
                       /\ Cardinality(map_'[m]) = Cardinality(map_[m]) + 1
               /\ Others(m, k)' = Others(m, k)
               /\ map_'[Other(m)] = map_[Other(m)]
      ]_vars

\* try_emplace has found its key present and returned the iterator of the
\* existing entry
C20_Witness ==
    /\ ret.op = "try_emplace"
    /\ ret.n = 0
    /\ ret.out[1].has
    /\ map_["myMap"] # {}

\* the full keys of the pairs vs are pairwise distinct
DistinctKeys(vs) ==
    \A i, j \in DOMAIN vs : i # j => vs[i].first # vs[j].first

\* C21: make_dynamic_hmap given N >= 0 pairs of pairwise distinct full keys
\* yields a map of size N in which at(k_i) returns v_i for every pair; the
\* map is the same for every permutation of the arguments and however
\* std::sort leaves the array, and zero pairs yield the empty map.
C21_MakeDynamicHMap ==
    [][ ret'.op = "make_dynamic_hmap" =>
        \A vs \in KeyValueTuples : \A p \in sorted_orders(vs) :
            (make_dynamic_hmap("myMap", vs, p) /\ DistinctKeys(vs))
            => /\ Cardinality(map_'["myMap"]) = Len(vs)
               /\ Len(vs) = 0 => map_'["myMap"] = {}
               /\ \A i \in DOMAIN vs :
                     at_result("at", "myMap", vs[i].first)'
                         = Ret("at", 0, <<Node(Entry(vs[i].first, vs[i].second))>>, "none")
               /\ \A q \in Perms(Len(vs)) :
                     LET ws == [i \in DOMAIN vs |-> vs[q[i]]]
                     IN  \A p2 \in sorted_orders(ws) :
                             loadHMapImpl({}, ws, p2, 1) = map_'["myMap"]
      ]_vars

\* make_dynamic_hmap has built a map of two pairs
C21_Witness ==
    /\ ret.op = "make_dynamic_hmap"
    /\ Cardinality(map_["myMap"]) = 2

\* C22: the identity of a type V, KeyTag<V>::tag(), is the same object on
\* every call and differs from the identity of every other type, also when
\* the first calls are made by several threads at once: the initializer of
\* theTag_ runs once per type at most, every call that has returned holds the
\* address of the constructed object of its type, and two calls hold the
\* same address exactly when they asked for the same type.
C22_OneIdentityPerType ==
    /\ \A V \in Types : theTag_[V].constructed <= 1
    /\ \A t \in Threads :
          threads[t].pc = "returned"
          => /\ theTag_[threads[t].V].constructed = 1
             /\ threads[t].ret = tag(threads[t].V)
    /\ \A t, u \in Threads :
          (threads[t].pc = "returned" /\ threads[u].pc = "returned")
          => (threads[t].ret = threads[u].ret <=> threads[t].V = threads[u].V)
    /\ \A V, W \in Types : V # W => tag(V) # tag(W)

\* two threads have returned from their calls for the same type, which was
\* not initialized when they made them
C22_Witness ==
    /\ \A t \in Threads : threads[t].pc = "returned" /\ threads[t].V = "float"
    /\ theTag_["float"].constructed = 1
    /\ theTag_["int"].guard = "uninitialized"

\* the number of TRUE among three booleans
CountTrue(x, y, z) ==
    (IF x THEN 1 ELSE 0) + (IF y THEN 1 ELSE 0) + (IF z THEN 1 ELSE 0)

\* C23: for the key a of any stored entry and any key b: a == b holds
\* exactly when the strings are equal and the type identities are the same,
\* a != b is its negation, a < b holds exactly when a's string is
\* lexicographically smaller or the strings are equal and a's identity
\* precedes b's, and exactly one of a < b, b < a, a == b holds. Stated of the
\* comparison operators defined in src/dynamic-hmap.cc.
C23_KeyOrder ==
    \A e \in map_["myMap"] : \A b \in Keys :
        LET a == e.key IN
        /\ KeyEqOld(a, b) <=> (a.key = b.key /\ tag(a.tag) = tag(b.tag))
        /\ KeyNeOld(a, b) <=> ~KeyEqOld(a, b)
        /\ KeyLessOld(a, b) <=>
              (StringLess(a.key, b.key)
               \/ (a.key = b.key /\ tag(a.tag) < tag(b.tag)))
        /\ CountTrue(KeyLessOld(a, b), KeyLessOld(b, a), KeyEqOld(a, b)) = 1

\* C30: insert never overwrites: given a filled capsule and a destination
\* key under which the destination map already holds an entry, insert leaves
\* that entry and the whole destination map as they were, size included, and
\* the capsule's value is discarded: the capsule is consumed, the other
\* instance is unchanged, and one holder fewer is alive.
C30_InsertNeverOverwrites ==
    [][ ret'.op = "insert" =>
        \A m \in Instances : \A k \in Keys :
            (/\ insert(m, <<k>>)
             /\ caps[1].second.has
             /\ Stored(m, k) # {})
            => /\ Stored(m, k)' = Stored(m, k)
               /\ map_'[m] = map_[m]
               /\ Cardinality(map_'[m]) = Cardinality(map_[m])
               /\ map_'[Other(m)] = map_[Other(m)]
               /\ caps' = <<>>
               /\ Live' = Live - 1
      ]_vars

\* the capsule extracted from myMap holds a value, and myMap2 holds another
\* value under the capsule's key
C30_Witness ==
    /\ Len(caps) = 1
    /\ caps[1].second.has
    /\ map_["myMap"] = {}
    /\ \E e \in Stored("myMap2", caps[1].first) : e.any # caps[1].second.any

\* the key strings of the pairs are pairwise distinct
DistinctStrings(values) ==
    \A i, j \in DOMAIN values : i # j => values[i].key # values[j].key

\* C24: make_hmap given a non-empty list of pairs with pairwise distinct key
\* strings, in any argument order, builds the map, and reading back each
\* original key, by its typed key and by its string alone, is accepted and
\* returns the pair's value as it was supplied.
C24_BuildAndReadBack ==
    (/\ ret.op = "make_hmap"
     /\ Len(ret.out) >= 1
     /\ DistinctStrings(ret.out))
    => /\ diag = {}
       /\ tree_ # NoMap
       /\ \A i \in DOMAIN ret.out :
             LET p == ret.out[i] IN
             /\ TK_diag(tree_, KeyType(p.key, p.Value)) = {}
             /\ FindInTree(KeyType(p.key, p.Value), tree_) = p
             /\ IK_diag(tree_, [key |-> p.key]) = {}
             /\ FindInTree([key |-> p.key], tree_) = p

\* C25: building a compile-time map is rejected for a duplicate key exactly
\* when two of the pairs given share their key string, whatever their value
\* types and wherever they stand in the argument list; such a program is
\* never accepted: no map exists, and nothing is left to fail at run time.
C25_DuplicateKeyRejected ==
    ret.op = "make_hmap"
    => /\ "DuplicateKey" \in diag <=> ~DistinctStrings(ret.out)
       /\ ~DistinctStrings(ret.out) => (diag # {} /\ tree_ = NoMap)
       /\ ret.err = "none"

\* make_hmap was given the same string first and last, with different value
\* types, another key between them, and was rejected for the duplicate only
C25_Witness ==
    /\ ret.op = "make_hmap"
    /\ Len(ret.out) = 3
    /\ ret.out[1].key = ret.out[3].key
    /\ ret.out[1].Value # ret.out[3].Value
    /\ ret.out[2].key # ret.out[1].key
    /\ diag = {"DuplicateKey"}

RECURSIVE InOrder(_)
\* the pairs of a tree, left subtree first, then the node, then the right subtree
InOrder(T) ==
    IF T.kind # "node" THEN <<>>
    ELSE InOrder(T.l) \o <<T.v>> \o InOrder(T.r)

\* the pairs the map stores under the key string Cs
StoredPairs(Cs) == {p \in {InOrder(tree_)[i] : i \in DOMAIN InOrder(tree_)} : p.key = Cs}

\* a map is built and the program is accepted so far
Built == tree_ # NoMap /\ diag = {}

\* C26: a lookup in a compile-time map is accepted exactly when the query
\* string is the key string of a stored pair and, for a typed query, the
\* required type is that pair's value type; a query whose string is not stored
\* is rejected as UnknownKey, a typed query whose string is stored under
\* another type as WrongValueType, and an accepted lookup reads the stored
\* pair and has no failure at run time.
C26_LookupAccepted ==
    /\ Built =>
         \A Cs \in CharLists :
            /\ IK_diag(tree_, [key |-> Cs])
                  = (IF StoredPairs(Cs) = {} THEN {"UnknownKey"} ELSE {})
            /\ StoredPairs(Cs) # {} => FindInTree([key |-> Cs], tree_) \in StoredPairs(Cs)
            /\ \A V \in Types :
                  /\ TK_diag(tree_, KeyType(Cs, V))
                        = (IF StoredPairs(Cs) = {} THEN {"UnknownKey"}
                           ELSE IF \A p \in StoredPairs(Cs) : p.Value # V
                                THEN {"WrongValueType"}
                           ELSE {})
                  /\ TK_diag(tree_, KeyType(Cs, V)) = {}
                        => FindInTree(KeyType(Cs, V), tree_) \in StoredPairs(Cs)
    /\ (ret.op \in {"operator[](TK)", "operator[](IK)"} /\ diag = {})
         => /\ ret.err = "none"
            /\ Len(ret.out) = 1
            /\ ret.out[1] \in StoredPairs(ret.out[1].key)

\* a typed lookup in a map of three pairs has been rejected for the type
\* of the stored value
C26_Witness ==
    /\ ret.op = "operator[](TK)"
    /\ diag = {"WrongValueType"}
    /\ Len(InOrder(tree_)) = 3

\* C27: in a compile-time map the string-only accessor and the fully typed
\* accessor of one key string refer to one slot: after an accepted assignment
\* through either, both read the value assigned, and the pairs of all other
\* keys are what they were.
C27_OneSlot ==
    [][(ret'.op \in {"operator[](TK)=", "operator[](IK)="} /\ diag' = {}) =>
         LET p == ret'.out[1]
             Before == InOrder(tree_)
             After == InOrder(tree_')
         IN  /\ IK_diag(tree_', [key |-> p.key]) = {}
             /\ TK_diag(tree_', KeyType(p.key, p.Value)) = {}
             /\ FindInTree([key |-> p.key], tree_') = p
             /\ FindInTree(KeyType(p.key, p.Value), tree_') = p
             /\ Len(After) = Len(Before)
             /\ \A i \in DOMAIN After :
                   IF Before[i].key = p.key THEN After[i] = p
                   ELSE After[i] = Before[i]
             /\ \A Cs \in CharLists \ {p.key} :
                   FindInTree([key |-> Cs], tree_') = FindInTree([key |-> Cs], tree_)
      ]_vars

\* a value has been assigned through the string-only accessor to a key that
\* is not at the root of a map of three pairs
C27_Witness ==
    /\ ret.op = "operator[](IK)="
    /\ diag = {}
    /\ Len(InOrder(tree_)) = 3
    /\ tree_.v.key # ret.out[1].key
    /\ FindInTree(KeyType(ret.out[1].key, ret.out[1].Value), tree_) = ret.out[1]

\* how often x occurs in the sequence s
Occurrences(s, x) == Cardinality({i \in DOMAIN s : s[i] = x})

\* t holds the elements of s, each as often
IsPermutation(s, t) ==
    /\ Len(s) = Len(t)
    /\ \A i \in DOMAIN s : Occurrences(s, s[i]) = Occurrences(t, s[i])

\* no element of s has a key string below its predecessor's
NonDecreasing(s) ==
    \A i \in DOMAIN s : i > 1 => ~StringLess(s[i].key, s[i - 1].key)

\* the rearrangements of the sequence s
Orderings(s) ==
    {[i \in DOMAIN s |-> s[f[i]]] :
        f \in {g \in [DOMAIN s -> DOMAIN s] : \A i, j \in DOMAIN s : g[i] = g[j] => i = j}}

\* the sorted list of key types (MergeSort<...>::type) is a sorted permutation
\* of the declared pairs' keys, the same for every order of distinct strings
SortedTypeList ==
    ret.op = "make_hmap" =>
        /\ IsPermutation([i \in DOMAIN ret.out |-> KeyType(ret.out[i].key, ret.out[i].Value)],
                         [i \in DOMAIN MergeSort(ret.out) |->
                             KeyType(MergeSort(ret.out)[i].key, MergeSort(ret.out)[i].Value)])
        /\ NonDecreasing(MergeSort(ret.out))
        /\ DistinctStrings(ret.out) =>
              \A o \in Orderings(ret.out) :
                 [i \in DOMAIN o |-> KeyType(MergeSort(o)[i].key, MergeSort(o)[i].Value)]
                   = [i \in DOMAIN o |->
                        KeyType(MergeSort(ret.out)[i].key, MergeSort(ret.out)[i].Value)]

\* C28: for every list of key/value pairs in any order the merge sort ends
\* with one sequence that is a permutation of the pairs given, in
\* non-decreasing order of key string, and for distinct key strings the
\* sequence is the same for every order of the pairs.
C28_MergeSortSorts ==
    (ret.op = "make_hmap" /\ Len(ret.out) >= 1) =>
        /\ MergeSort_apply(ret.out).wf
        /\ IsPermutation(ret.out, MergeSort_apply(ret.out).val)
        /\ NonDecreasing(MergeSort_apply(ret.out).val)
        /\ DistinctStrings(ret.out) =>
              \A o \in Orderings(ret.out) :
                 /\ MergeSort_apply(o).wf
                 /\ IsPermutation(MergeSort_apply(o).val, MergeSort_apply(ret.out).val)

\* where the sort of the pairs is well formed it is a sorted permutation of them
SortedWhereWellFormed ==
    (ret.op = "make_hmap" /\ MergeSort_apply(ret.out).wf) =>
        /\ IsPermutation(ret.out, MergeSort_apply(ret.out).val)
        /\ NonDecreasing(MergeSort_apply(ret.out).val)
        /\ DistinctStrings(ret.out) =>
              \A o \in Orderings(ret.out) :
                 MergeSort_apply(o).wf =>
                    [i \in DOMAIN o |-> MergeSort_apply(o).val[i].key]
                      = [i \in DOMAIN o |-> MergeSort_apply(ret.out).val[i].key]

RECURSIVE Height(_)
\* the number of nodes on the longest path from the root down
Height(T) ==
    IF T.kind # "node" THEN 0
    ELSE 1 + (IF Height(T.l) >= Height(T.r) THEN Height(T.l) ELSE Height(T.r))

RECURSIVE Log2Floor(_)
\* floor(log2 n) for n >= 1
Log2Floor(n) == IF n <= 1 THEN 0 ELSE 1 + Log2Floor(n \div 2)

RECURSIVE Visited(_, _)
\* the number of nodes the lookup of FindMe passes through, the last included
Visited(FindMe, T) ==
    IF T.kind # "node" THEN 0
    ELSE IF detail_KeyLess(FindMe, T.v) THEN 1 + Visited(FindMe, T.l)
    ELSE IF detail_KeyLess(T.v, FindMe) THEN 1 + Visited(FindMe, T.r)
    ELSE 1

RECURSIVE MiddleEverywhere(_)
\* every node is the middle element of the sequence below it, its subtrees'
\* sizes differ by at most 1, and what is not a node is the empty marker
MiddleEverywhere(T) ==
    IF T.kind # "node" THEN T = Void
    ELSE LET nl == Len(InOrder(T.l))
             nr == Len(InOrder(T.r))
         IN  /\ nl = (nl + nr) \div 2
             /\ nr - nl \in {0, 1}
             /\ MiddleEverywhere(T.l)
             /\ MiddleEverywhere(T.r)

\* C29: from a sorted sequence of N >= 1 pairs tree assembly makes a binary
\* search tree of exactly N nodes whose in-order traversal is the sequence;
\* every node is the middle element of its sub-sequence, so its subtrees'
\* sizes differ by at most 1; the height, and the number of nodes a lookup
\* visits, is at most floor(log2 N) + 1; an empty sub-sequence is the empty
\* marker, not a node.
C29_BalancedTree ==
    /\ SortedToTree(<<>>) = Void
    /\ (ret.op = "make_hmap" /\ Len(ret.out) >= 1) =>
          LET Sorted == MergeSort(ret.out)
              T == SortedToTree(Sorted)
              N == Len(Sorted)
          IN  /\ T.kind = "node"
              /\ InOrder(T) = Sorted
              /\ Len(InOrder(T)) = N
              /\ MiddleEverywhere(T)
              /\ Height(T) <= Log2Floor(N) + 1
              /\ \A Cs \in CharLists : Visited([key |-> Cs], T) <= Log2Floor(N) + 1
    /\ Built =>
          /\ MiddleEverywhere(tree_)
          /\ NonDecreasing(InOrder(tree_))
          /\ Height(tree_) <= Log2Floor(Len(InOrder(tree_))) + 1
          /\ \A Cs \in CharLists :
                Visited([key |-> Cs], tree_) <= Log2Floor(Len(InOrder(tree_))) + 1

\* a map of four pairs has been built: three levels, the root with one pair
\* to its left and two to its right
C29_Witness ==
    /\ ret.op = "make_hmap"
    /\ Built
    /\ Len(InOrder(tree_)) = 4
    /\ Height(tree_) = 3
    /\ Len(InOrder(tree_.l)) = 1
    /\ Len(InOrder(tree_.r)) = 2

====
